---- MODULE Spec2Model ----
(***************************************************************************)
(* A model of the two single-producer/single-consumer channel packets of   *)
(* libstd/comm: oneshot::Packet (oneshot.rs) and stream::Packet            *)
(* (stream.rs).  One sender task and one receiver task share one packet;   *)
(* every atomic operation and every access to a plain field of the packet  *)
(* is one step.  `flavor` selects which of the two packets a behaviour     *)
(* exercises; the fields of the other packet stay as constructed.          *)
(***************************************************************************)
EXTENDS Integers, Sequences, FiniteSets

\* ---- bounds of the model ------------------------------------------------
\* operations the sender starts (send / upgrade), stream packet
MaxSends == 3
\* operations the receiver starts (try_recv, recv, can_recv, start_selection)
MaxRecvOps == 3
\* task handles the receiver may deposit (parks and selections)
MaxParks == 2
\* width of the stream counter's integer type (int), in bits
IntBits == 6

\* ---- oneshot.rs: the states of the state word -----------------------------
EMPTY == 0
DATA == 1
DISCONNECTED == 2

\* ---- stream.rs: DISCONNECTED = int::min_value -----------------------------
IntModulus == 2 ^ IntBits
STREAM_DISCONNECTED == -(2 ^ (IntBits - 1))

\* two's complement wrap-around of AtomicInt arithmetic
Wrap(x) == ((x - STREAM_DISCONNECTED) % IntModulus) + STREAM_DISCONNECTED

VARIABLES
    flavor,     \* "oneshot" or "stream": the packet this behaviour uses
    \* oneshot::Packet
    state,      \* AtomicUint: EMPTY, DATA, DISCONNECTED or a task handle
    data,       \* Option<T>
    upgrade,    \* MyUpgrade<T>
    \* stream::Packet
    queue,      \* spsc::Queue<Message<T>>
    cnt,        \* AtomicInt
    steals,     \* int
    to_wake,    \* Option<BlockedTask>
    go_home,    \* AtomicBool
    \* the two tasks
    s,          \* sender: program counter and locals
    r,          \* receiver: program counter and locals
    tasks,      \* per deposited task handle: who took it, wake() and trash() calls
    nh,         \* task handles created so far
    \* observations
    sret,       \* what the sender's finished operations returned
    rlog,       \* what the receiver's finished operations returned
    discarded,  \* messages destroyed unreceived (by drop_port, or by a failed send)
    failure     \* the assertion / unreachable!() / unwrap that failed, or ""

vars == <<flavor, state, data, upgrade, queue, cnt, steals, to_wake, go_home,
          s, r, tasks, nh, sret, rlog, discarded, failure>>

oneshotVars == <<state, data, upgrade>>
streamVars == <<queue, cnt, steals, to_wake, go_home>>

\* ---- Option<T> and the enums ----------------------------------------------
None == <<>>
Some(v) == <<v>>
IsSome(o) == Len(o) > 0
Unwrap(o) == o[1]

NothingSent == <<"NothingSent">>
SendUsed == <<"SendUsed">>
GoUp(p) == <<"GoUp", p>>
IsGoUp(u) == u[1] = "GoUp"

\* stream::Message
MData(t) == [tag |-> "Data", val |-> t]
MGoUp(p) == [tag |-> "GoUp", val |-> p]

\* a task handle cast to a uint never collides with EMPTY / DATA / DISCONNECTED
CastToUint(i) == DISCONNECTED + i
CastFromUint(n) == n - DISCONNECTED
IsTask(n) == n > DISCONNECTED

\* ---- bookkeeping ----------------------------------------------------------
NoTask == [st |-> 0, rt |-> 0, wake |-> 0, trash |-> 0]
SenderTook(i) == [tasks EXCEPT ![i].st = @ + 1]
ReceiverTook(i) == [tasks EXCEPT ![i].rt = @ + 1]
Woke(i) == [tasks EXCEPT ![i].wake = @ + 1]

SReturn(op, arg, ret) == Append(sret, [op |-> op, arg |-> arg, ret |-> ret])
\* a oneshot receiver's entry also notes how many sender operations had
\* returned (at): what is said of its upgrade compares the two
RReturn(op, res, val) ==
    Append(rlog, [op |-> op, res |-> res, val |-> val,
                  at |-> IF flavor = "oneshot" THEN Len(sret) ELSE 0])
\* a message destroyed without being received, and the endpoint that did it
Dropped(by, m) == [by |-> by, tag |-> m.tag, val |-> m.val]

SIdle == [pc |-> "idle", op |-> "", arg |-> 0, n |-> 0, prev |-> NothingSent,
          first |-> None, ops |-> 0, upg |-> FALSE, late |-> FALSE]
RIdle == [pc |-> "idle", op |-> "", phase |-> "", n |-> 0, h |-> 0, steals |-> 0,
          ops |-> 0, seen |-> 0]

\* The receiver was handed the successor port (Upgraded, can_recv's Err, or
\* SelUpgraded): its caller continues on that port and only drops this one.
Redirected == \E i \in 1..Len(rlog) : rlog[i].res \in {"Upgraded", "Err", "SelUpgraded"}

\* the receiver may start another operation on this packet
RCanStart == r.pc = "idle" /\ r.ops < MaxRecvOps /\ ~Redirected

\* while the receiver is parked, the number of sender operations that had
\* returned when it parked
NoteSender(t) == [t EXCEPT !.seen = IF t.pc = "parked" THEN Len(sret) ELSE 0]

Init ==
    /\ flavor \in {"oneshot", "stream"}
    /\ state = EMPTY
    /\ data = None
    /\ upgrade = NothingSent
    /\ queue = <<>>
    /\ cnt = 0
    /\ steals = 0
    /\ to_wake = None
    /\ go_home = FALSE
    /\ s = SIdle
    /\ r = RIdle
    /\ tasks = [i \in 1..MaxParks |-> NoTask]
    /\ nh = 0
    /\ sret = <<>>
    /\ rlog = <<>>
    /\ discarded = {}
    /\ failure = ""

\* drop_port has returned: what a sender call notes when it starts (late)
PortDropped == r.pc \in {"done", "destroyed"}

\* a failed assert!/unreachable!()/unwrap kills the task that ran it
Panicked(t, msg) == [t EXCEPT !.pc = "panicked"]

(***************************************************************************)
(* oneshot::Packet, the sender                                             *)
(***************************************************************************)

\* send: the sanity check and the writes of data and upgrade (lines 95-101).
\* The caller sends on a oneshot only while sent() is false.
OSendWrite ==
    /\ flavor = "oneshot" /\ s.pc = "idle" /\ ~s.upg
    /\ upgrade = NothingSent
    /\ IF IsSome(data)
         THEN /\ failure' = "send: assert!(self.data.is_none())"
              /\ s' = Panicked(s, failure')
              /\ UNCHANGED <<data, upgrade>>
         ELSE /\ data' = Some(s.ops + 1)
              /\ upgrade' = SendUsed
              /\ s' = [s EXCEPT !.pc = "send_swap", !.op = "send",
                                !.arg = s.ops + 1, !.ops = @ + 1,
                                !.late = PortDropped]
              /\ UNCHANGED failure
    /\ UNCHANGED <<flavor, state, streamVars, r, tasks, nh, sret, rlog, discarded>>

\* send: self.state.swap(DATA, Release) and the match on the previous state
OSendSwap ==
    /\ flavor = "oneshot" /\ s.pc = "send_swap"
    /\ state' = DATA
    /\ CASE state = EMPTY ->
              /\ s' = [s EXCEPT !.pc = "idle"]
              /\ sret' = SReturn("send", s.arg, "true")
              /\ UNCHANGED <<tasks, failure>>
         [] state = DISCONNECTED ->
              /\ s' = [s EXCEPT !.pc = "send_take"]
              /\ UNCHANGED <<sret, tasks, failure>>
         [] state = DATA ->
              /\ failure' = "send: unreachable!()"
              /\ s' = Panicked(s, failure')
              /\ UNCHANGED <<sret, tasks>>
         [] OTHER ->
              /\ s' = [s EXCEPT !.pc = "send_wake", !.n = state]
              /\ tasks' = SenderTook(CastFromUint(state))
              /\ UNCHANGED <<sret, failure>>
    /\ UNCHANGED <<flavor, data, upgrade, streamVars, r, nh, rlog, discarded>>

\* send, DISCONNECTED arm: self.data.take_unwrap(); false
OSendTake ==
    /\ flavor = "oneshot" /\ s.pc = "send_take"
    /\ IF IsSome(data)
         THEN /\ data' = None
              /\ discarded' = discarded \cup {Dropped("chan", MData(Unwrap(data)))}
              /\ s' = [s EXCEPT !.pc = "idle"]
              /\ sret' = SReturn("send", s.arg, "false")
              /\ UNCHANGED failure
         ELSE /\ failure' = "send: take_unwrap on None"
              /\ s' = Panicked(s, failure')
              /\ UNCHANGED <<data, sret, discarded>>
    /\ UNCHANGED <<flavor, state, upgrade, streamVars, r, tasks, nh, rlog>>

\* send, task arm: t.wake().map(|t| t.reawaken(can_resched)); true
OSendWake ==
    /\ flavor = "oneshot" /\ s.pc = "send_wake"
    /\ tasks' = Woke(CastFromUint(s.n))
    /\ s' = [s EXCEPT !.pc = "idle"]
    /\ sret' = SReturn("send", s.arg, "true")
    /\ UNCHANGED <<flavor, oneshotVars, streamVars, r, nh, rlog, discarded, failure>>

\* upgrade: prev = self.upgrade; self.upgrade = GoUp(up) (lines 212-217)
OUpgradeWrite ==
    /\ flavor = "oneshot" /\ s.pc = "idle" /\ ~s.upg
    /\ ~IsGoUp(upgrade)
    /\ upgrade' = GoUp(s.ops + 1)
    /\ s' = [s EXCEPT !.pc = "up_swap", !.op = "upgrade", !.arg = s.ops + 1,
                      !.prev = upgrade, !.ops = @ + 1, !.upg = TRUE,
                      !.late = PortDropped]
    /\ UNCHANGED <<flavor, state, data, streamVars, r, tasks, nh, sret, rlog,
                   discarded, failure>>

\* faulty variant: upgrade leaves the state word alone when it finds DATA
\* or EMPTY
OUpgradeSwap_NoStore ==
    /\ flavor = "oneshot" /\ s.pc = "up_swap"
    /\ state' = IF state \in {DATA, EMPTY} THEN state ELSE DISCONNECTED
    /\ CASE state \in {DATA, EMPTY} ->
              /\ s' = [s EXCEPT !.pc = "idle"]
              /\ sret' = SReturn("upgrade", s.arg, "UpSuccess")
              /\ UNCHANGED tasks
         [] state = DISCONNECTED ->
              /\ s' = [s EXCEPT !.pc = "up_restore"]
              /\ UNCHANGED <<sret, tasks>>
         [] OTHER ->
              /\ s' = [s EXCEPT !.pc = "up_woke", !.n = state]
              /\ tasks' = SenderTook(CastFromUint(state))
              /\ sret' = SReturn("upgrade", s.arg, "UpWoke")
    /\ UNCHANGED <<flavor, data, upgrade, streamVars, r, nh, rlog, discarded, failure>>

\* upgrade: self.state.swap(DISCONNECTED, Release) and the match
OUpgradeSwap ==
    /\ flavor = "oneshot" /\ s.pc = "up_swap"
    /\ state' = DISCONNECTED
    /\ CASE state \in {DATA, EMPTY} ->
              /\ s' = [s EXCEPT !.pc = "idle"]
              /\ sret' = SReturn("upgrade", s.arg, "UpSuccess")
              /\ UNCHANGED tasks
         [] state = DISCONNECTED ->
              /\ s' = [s EXCEPT !.pc = "up_restore"]
              /\ UNCHANGED <<sret, tasks>>
         [] OTHER ->
              /\ s' = [s EXCEPT !.pc = "up_woke", !.n = state]
              /\ tasks' = SenderTook(CastFromUint(state))
              /\ sret' = SReturn("upgrade", s.arg, "UpWoke")
    /\ UNCHANGED <<flavor, data, upgrade, streamVars, r, nh, rlog, discarded, failure>>

\* upgrade, DISCONNECTED arm: self.upgrade = prev; UpDisconnected
OUpgradeRestore ==
    /\ flavor = "oneshot" /\ s.pc = "up_restore"
    /\ upgrade' = s.prev
    /\ s' = [s EXCEPT !.pc = "idle"]
    /\ sret' = SReturn("upgrade", s.arg, "UpDisconnected")
    /\ UNCHANGED <<flavor, state, data, streamVars, r, tasks, nh, rlog, discarded, failure>>

\* the caller of upgrade wakes the task that UpWoke handed to it
OUpgradeCallerWake ==
    /\ flavor = "oneshot" /\ s.pc = "up_woke"
    /\ tasks' = Woke(CastFromUint(s.n))
    /\ s' = [s EXCEPT !.pc = "idle"]
    /\ UNCHANGED <<flavor, oneshotVars, streamVars, r, nh, sret, rlog, discarded, failure>>

\* faulty variant: drop_chan loads the state word instead of swapping
\* DISCONNECTED into it
ODropChan_NoSwap ==
    /\ flavor = "oneshot" /\ s.pc = "idle"
    /\ IF IsTask(state)
         THEN /\ s' = [s EXCEPT !.pc = "dc_wake", !.op = "drop_chan", !.n = state]
              /\ tasks' = SenderTook(CastFromUint(state))
              /\ UNCHANGED sret
         ELSE /\ s' = [s EXCEPT !.pc = "done", !.op = "drop_chan"]
              /\ sret' = SReturn("drop_chan", 0, "()")
              /\ UNCHANGED tasks
    /\ UNCHANGED <<flavor, oneshotVars, streamVars, r, nh, rlog, discarded, failure>>

\* drop_chan: self.state.swap(DISCONNECTED, SeqCst)
ODropChan ==
    /\ flavor = "oneshot" /\ s.pc = "idle"
    /\ state' = DISCONNECTED
    /\ IF IsTask(state)
         THEN /\ s' = [s EXCEPT !.pc = "dc_wake", !.op = "drop_chan", !.n = state]
              /\ tasks' = SenderTook(CastFromUint(state))
              /\ UNCHANGED sret
         ELSE /\ s' = [s EXCEPT !.pc = "done", !.op = "drop_chan"]
              /\ sret' = SReturn("drop_chan", 0, "()")
              /\ UNCHANGED tasks
    /\ UNCHANGED <<flavor, data, upgrade, streamVars, r, nh, rlog, discarded, failure>>

\* drop_chan, task arm: t.wake().map(|t| t.reawaken(true))
ODropChanWake ==
    /\ flavor = "oneshot" /\ s.pc = "dc_wake"
    /\ tasks' = Woke(CastFromUint(s.n))
    /\ s' = [s EXCEPT !.pc = "done"]
    /\ sret' = SReturn("drop_chan", 0, "()")
    /\ UNCHANGED <<flavor, oneshotVars, streamVars, r, nh, rlog, discarded, failure>>

OSender ==
    \/ OSendWrite \/ OSendSwap \/ OSendTake \/ OSendWake
    \/ OUpgradeWrite \/ OUpgradeSwap \/ OUpgradeRestore \/ OUpgradeCallerWake
    \/ ODropChan \/ ODropChanWake

(***************************************************************************)
(* oneshot::Packet, the receiver                                           *)
(***************************************************************************)

\* faulty variant: a compare_and_swap that stores whatever it finds
CompareAndSwap_Always(cur, old, new) == new

\* the value compare_and_swap(old, new) leaves in the word
CompareAndSwap(cur, old, new) == IF cur = old THEN new ELSE cur

\* recv: if self.state.load(Acquire) == EMPTY { deschedule ... } (line 147)
ORecvLoad ==
    /\ flavor = "oneshot" /\ RCanStart /\ nh < MaxParks
    /\ r' = [r EXCEPT !.pc = IF state = EMPTY THEN "recv_park" ELSE "tr_load",
                      !.op = "recv", !.ops = @ + 1]
    /\ UNCHANGED <<flavor, oneshotVars, streamVars, s, tasks, nh, sret, rlog,
                   discarded, failure>>

\* recv, the deschedule closure: compare_and_swap(EMPTY, n, Acquire)
ORecvPark ==
    /\ flavor = "oneshot" /\ r.pc = "recv_park"
    /\ state' = CompareAndSwap(state, EMPTY, CastToUint(nh + 1))
    /\ CASE state = EMPTY ->
              /\ r' = NoteSender([r EXCEPT !.pc = "parked", !.h = nh + 1])
              /\ nh' = nh + 1
              /\ UNCHANGED failure
         [] state \in {DATA, DISCONNECTED} ->
              /\ r' = [r EXCEPT !.pc = "tr_load"]
              /\ UNCHANGED <<nh, failure>>
         [] OTHER ->
              /\ failure' = "recv: unreachable!()"
              /\ r' = Panicked(r, failure')
              /\ UNCHANGED nh
    /\ UNCHANGED <<flavor, data, upgrade, streamVars, s, tasks, sret, rlog, discarded>>

\* the descheduled task runs again once wake() was called on its handle
ORecvWoken ==
    /\ flavor = "oneshot" /\ r.pc = "parked"
    /\ tasks[r.h].wake > 0
    /\ r' = NoteSender([r EXCEPT !.pc = "tr_load"])
    /\ UNCHANGED <<flavor, oneshotVars, streamVars, s, tasks, nh, sret, rlog,
                   discarded, failure>>

\* try_recv: match self.state.load(Acquire) (line 172)
OTryRecvLoad ==
    /\ flavor = "oneshot"
    /\ \/ RCanStart
       \/ r.pc = "tr_load"
    /\ LET op == IF r.pc = "idle" THEN "try_recv" ELSE r.op
           ops == IF r.pc = "idle" THEN r.ops + 1 ELSE r.ops
       IN CASE state = EMPTY ->
                 /\ r' = [r EXCEPT !.pc = "idle", !.op = op, !.ops = ops]
                 /\ rlog' = RReturn(op, "Empty", 0)
                 /\ UNCHANGED failure
            [] state = DATA ->
                 /\ r' = [r EXCEPT !.pc = "tr_cas", !.op = op, !.ops = ops]
                 /\ UNCHANGED <<rlog, failure>>
            [] state = DISCONNECTED ->
                 /\ r' = [r EXCEPT !.pc = "tr_disc", !.op = op, !.ops = ops]
                 /\ UNCHANGED <<rlog, failure>>
            [] OTHER ->
                 /\ failure' = "try_recv: unreachable!()"
                 /\ r' = Panicked(r, failure')
                 /\ UNCHANGED rlog
    /\ UNCHANGED <<flavor, oneshotVars, streamVars, s, tasks, nh, sret, discarded>>

\* try_recv, DATA arm: compare_and_swap(DATA, EMPTY, Acquire)
OTryRecvCas ==
    /\ flavor = "oneshot" /\ r.pc = "tr_cas"
    /\ state' = CompareAndSwap(state, DATA, EMPTY)
    /\ r' = [r EXCEPT !.pc = "tr_take"]
    /\ UNCHANGED <<flavor, data, upgrade, streamVars, s, tasks, nh, sret, rlog,
                   discarded, failure>>

\* try_recv, DATA arm: match self.data.take()
OTryRecvTake ==
    /\ flavor = "oneshot" /\ r.pc = "tr_take"
    /\ IF IsSome(data)
         THEN /\ data' = None
              /\ r' = [r EXCEPT !.pc = "idle"]
              /\ rlog' = RReturn(r.op, "Ok", Unwrap(data))
              /\ UNCHANGED failure
         ELSE /\ failure' = "try_recv: unreachable!() (no data)"
              /\ r' = Panicked(r, failure')
              /\ UNCHANGED <<data, rlog>>
    /\ UNCHANGED <<flavor, state, upgrade, streamVars, s, tasks, nh, sret, discarded>>

\* faulty variant: the DISCONNECTED arm looks at the upgrade slot before the data slot
DisconnectedResult_UpgradeFirst(d, up) ==
    IF IsGoUp(up) THEN <<"Upgraded", up[2]>>
    ELSE IF IsSome(d) THEN <<"Ok", Unwrap(d)>>
    ELSE <<"Disconnected", 0>>

\* what try_recv's DISCONNECTED arm returns, from the data slot and the
\* upgrade slot (lines 194-201)
DisconnectedResult(d, up) ==
    IF IsSome(d) THEN <<"Ok", Unwrap(d)>>
    ELSE IF IsGoUp(up) THEN <<"Upgraded", up[2]>>
    ELSE <<"Disconnected", 0>>

\* try_recv, DISCONNECTED arm: data.take(), then util::replace(upgrade, SendUsed)
OTryRecvDisconnected ==
    /\ flavor = "oneshot" /\ r.pc = "tr_disc"
    /\ LET res == DisconnectedResult(data, upgrade)
       IN /\ rlog' = RReturn(r.op, res[1], res[2])
          /\ data' = IF res[1] = "Upgraded" THEN data ELSE None
          /\ upgrade' = IF res[1] = "Ok" THEN upgrade ELSE SendUsed
    /\ r' = [r EXCEPT !.pc = "idle"]
    /\ UNCHANGED <<flavor, state, streamVars, s, tasks, nh, sret, discarded, failure>>

\* can_recv (lines 273-294)
OCanRecv ==
    /\ flavor = "oneshot" /\ RCanStart
    /\ CASE state = EMPTY ->
              /\ r' = [r EXCEPT !.op = "can_recv", !.ops = @ + 1]
              /\ rlog' = RReturn("can_recv", "Ok(false)", 0)
              /\ UNCHANGED failure
         [] state = DATA ->
              /\ r' = [r EXCEPT !.op = "can_recv", !.ops = @ + 1]
              /\ rlog' = RReturn("can_recv", "Ok(true)", 0)
              /\ UNCHANGED failure
         [] state = DISCONNECTED ->
              /\ r' = [r EXCEPT !.pc = "cr_disc", !.op = "can_recv", !.ops = @ + 1]
              /\ UNCHANGED <<rlog, failure>>
         [] OTHER ->
              /\ failure' = "can_recv: unreachable!()"
              /\ r' = Panicked(r, failure')
              /\ UNCHANGED rlog
    /\ UNCHANGED <<flavor, oneshotVars, streamVars, s, tasks, nh, sret, discarded>>

\* faulty variant: can_recv takes the value out of the data slot it polls
OCanRecvDisconnected_TakesData ==
    /\ flavor = "oneshot" /\ r.pc = "cr_disc"
    /\ r' = [r EXCEPT !.pc = "idle"]
    /\ IF IsSome(data)
         THEN /\ rlog' = RReturn("can_recv", "Ok(true)", 0)
              /\ data' = None
              /\ UNCHANGED upgrade
         ELSE IF IsGoUp(upgrade)
         THEN /\ upgrade' = SendUsed
              /\ rlog' = RReturn("can_recv", "Err", upgrade[2])
              /\ UNCHANGED data
         ELSE /\ rlog' = RReturn("can_recv", "Ok(true)", 0)
              /\ UNCHANGED <<data, upgrade>>
    /\ UNCHANGED <<flavor, state, streamVars, s, tasks, nh, sret, discarded, failure>>

\* can_recv, the two DISCONNECTED arms
OCanRecvDisconnected ==
    /\ flavor = "oneshot" /\ r.pc = "cr_disc"
    /\ r' = [r EXCEPT !.pc = "idle"]
    /\ IF IsSome(data)
         THEN /\ rlog' = RReturn("can_recv", "Ok(true)", 0)
              /\ UNCHANGED upgrade
         ELSE IF IsGoUp(upgrade)
         THEN /\ upgrade' = SendUsed
              /\ rlog' = RReturn("can_recv", "Err", upgrade[2])
         ELSE /\ rlog' = RReturn("can_recv", "Ok(true)", 0)
              /\ UNCHANGED upgrade
    /\ UNCHANGED <<flavor, state, data, streamVars, s, tasks, nh, sret, discarded, failure>>

\* start_selection: compare_and_swap(EMPTY, n, SeqCst) (line 300)
OStartSelection ==
    /\ flavor = "oneshot" /\ RCanStart /\ nh < MaxParks
    /\ state' = CompareAndSwap(state, EMPTY, CastToUint(nh + 1))
    /\ CASE state = EMPTY ->
              /\ r' = [r EXCEPT !.pc = "selecting", !.op = "start_selection",
                                !.h = nh + 1, !.ops = @ + 1]
              /\ nh' = nh + 1
              /\ rlog' = RReturn("start_selection", "SelSuccess", nh + 1)
              /\ UNCHANGED failure
         [] state = DATA ->
              /\ r' = [r EXCEPT !.op = "start_selection", !.ops = @ + 1]
              /\ rlog' = RReturn("start_selection", "SelCanceled", 0)
              /\ UNCHANGED <<nh, failure>>
         [] state = DISCONNECTED ->
              /\ r' = [r EXCEPT !.pc = "ss_disc", !.op = "start_selection",
                                !.ops = @ + 1]
              /\ UNCHANGED <<nh, rlog, failure>>
         [] OTHER ->
              /\ failure' = "start_selection: unreachable!()"
              /\ r' = Panicked(r, failure')
              /\ UNCHANGED <<nh, rlog>>
    /\ UNCHANGED <<flavor, data, upgrade, streamVars, s, tasks, sret, discarded>>

\* start_selection, the two DISCONNECTED arms
OStartSelectionDisconnected ==
    /\ flavor = "oneshot" /\ r.pc = "ss_disc"
    /\ r' = [r EXCEPT !.pc = "idle"]
    /\ IF IsSome(data)
         THEN /\ rlog' = RReturn("start_selection", "SelCanceled", 0)
              /\ UNCHANGED upgrade
         ELSE IF IsGoUp(upgrade)
         THEN /\ upgrade' = SendUsed
              /\ rlog' = RReturn("start_selection", "SelUpgraded", upgrade[2])
         ELSE /\ rlog' = RReturn("start_selection", "SelCanceled", 0)
              /\ UNCHANGED upgrade
    /\ UNCHANGED <<flavor, state, data, streamVars, s, tasks, nh, sret, discarded, failure>>

\* abort_selection: match self.state.load(Acquire) (line 335)
OAbortLoad ==
    /\ flavor = "oneshot" /\ r.pc = "selecting"
    /\ CASE state = EMPTY ->
              /\ failure' = "abort_selection: unreachable!()"
              /\ r' = Panicked(r, failure')
              /\ UNCHANGED rlog
         [] state \in {DATA, DISCONNECTED} ->
              /\ r' = [r EXCEPT !.pc = "idle", !.op = "abort_selection"]
              /\ rlog' = RReturn("abort_selection", "true", r.h)
              /\ UNCHANGED failure
         [] OTHER ->
              /\ r' = [r EXCEPT !.pc = "ab_cas", !.op = "abort_selection", !.n = state]
              /\ UNCHANGED <<rlog, failure>>
    /\ UNCHANGED <<flavor, oneshotVars, streamVars, s, tasks, nh, sret, discarded>>

\* faulty variant: abort_selection takes the task back whatever the swap returned
AbortOwnsTask_Always(m, n) == TRUE

\* abort_selection: whether the compare_and_swap(n, EMPTY) that returned m
\* gave the receiver its task back (the arm that calls t.trash())
AbortOwnsTask(m, n) == m = n

\* abort_selection: compare_and_swap(n, EMPTY, SeqCst) and the match (line 341)
OAbortCas ==
    /\ flavor = "oneshot" /\ r.pc = "ab_cas"
    /\ state' = CompareAndSwap(state, r.n, EMPTY)
    /\ CASE state = EMPTY ->
              /\ failure' = "abort_selection: unreachable!() (cas)"
              /\ r' = Panicked(r, failure')
              /\ UNCHANGED <<rlog, tasks>>
         [] state \in {DATA, DISCONNECTED} /\ ~AbortOwnsTask(state, r.n) ->
              /\ r' = [r EXCEPT !.pc = "idle"]
              /\ rlog' = RReturn("abort_selection", "true", r.h)
              /\ UNCHANGED <<failure, tasks>>
         [] OTHER ->
              /\ IF AbortOwnsTask(state, r.n)
                   THEN /\ tasks' = [tasks EXCEPT ![CastFromUint(r.n)].rt = @ + 1,
                                                  ![CastFromUint(r.n)].trash = @ + 1]
                        /\ r' = [r EXCEPT !.pc = "idle"]
                        /\ rlog' = RReturn("abort_selection", "false", r.h)
                        /\ UNCHANGED failure
                   ELSE /\ failure' = "abort_selection: assert_eq!(m, n)"
                        /\ r' = Panicked(r, failure')
                        /\ UNCHANGED <<rlog, tasks>>
    /\ UNCHANGED <<flavor, data, upgrade, streamVars, s, nh, sret, discarded>>

\* drop_port: self.state.swap(DISCONNECTED, Acquire) (line 251)
ODropPort ==
    /\ flavor = "oneshot" /\ r.pc = "idle"
    /\ state' = DISCONNECTED
    /\ CASE state \in {DISCONNECTED, EMPTY} ->
              /\ r' = [r EXCEPT !.pc = "done", !.op = "drop_port"]
              /\ rlog' = RReturn("drop_port", "()", 0)
              /\ UNCHANGED failure
         [] state = DATA ->
              /\ r' = [r EXCEPT !.pc = "dp_take", !.op = "drop_port"]
              /\ UNCHANGED <<rlog, failure>>
         [] OTHER ->
              /\ failure' = "drop_port: unreachable!()"
              /\ r' = Panicked(r, failure')
              /\ UNCHANGED rlog
    /\ UNCHANGED <<flavor, data, upgrade, streamVars, s, tasks, nh, sret, discarded>>

\* faulty variant: drop_port's DATA arm leaves the value in the data slot
ODropPortTake_Leaves ==
    /\ flavor = "oneshot" /\ r.pc = "dp_take"
    /\ r' = [r EXCEPT !.pc = "done"]
    /\ rlog' = RReturn("drop_port", "()", 0)
    /\ UNCHANGED <<flavor, oneshotVars, streamVars, s, tasks, nh, sret, discarded,
                   failure>>

\* drop_port, DATA arm: self.data.take_unwrap()
ODropPortTake ==
    /\ flavor = "oneshot" /\ r.pc = "dp_take"
    /\ IF IsSome(data)
         THEN /\ data' = None
              /\ discarded' = discarded \cup {Dropped("port", MData(Unwrap(data)))}
              /\ r' = [r EXCEPT !.pc = "done"]
              /\ rlog' = RReturn("drop_port", "()", 0)
              /\ UNCHANGED failure
         ELSE /\ failure' = "drop_port: take_unwrap on None"
              /\ r' = Panicked(r, failure')
              /\ UNCHANGED <<data, discarded, rlog>>
    /\ UNCHANGED <<flavor, state, upgrade, streamVars, s, tasks, nh, sret>>

\* Drop for Packet: assert_eq!(self.state.load(Relaxed), DISCONNECTED),
\* run once both endpoints have dropped
ODestroy ==
    /\ flavor = "oneshot" /\ s.pc = "done" /\ r.pc = "done"
    /\ failure' = IF state = DISCONNECTED THEN failure
                  ELSE "drop: assert_eq!(state, DISCONNECTED)"
    /\ s' = [s EXCEPT !.pc = "destroyed"]
    /\ r' = [r EXCEPT !.pc = "destroyed"]
    /\ UNCHANGED <<flavor, oneshotVars, streamVars, tasks, nh, sret, rlog, discarded>>

OReceiver ==
    \/ ORecvLoad \/ ORecvPark \/ ORecvWoken
    \/ OTryRecvLoad \/ OTryRecvCas \/ OTryRecvTake \/ OTryRecvDisconnected
    \/ OCanRecv \/ OCanRecvDisconnected
    \/ OStartSelection \/ OStartSelectionDisconnected
    \/ OAbortLoad \/ OAbortCas
    \/ ODropPort \/ ODropPortTake

(***************************************************************************)
(* stream::Packet, the sender                                              *)
(***************************************************************************)

\* spsc::Queue: push at the tail, pop from the head
QueuePush(q, m) == Append(q, m)
QueuePop(q) == IF q = <<>> THEN None ELSE Some(Head(q))
QueueRest(q) == IF q = <<>> THEN q ELSE Tail(q)

\* faulty variant: do_send does not look at go_home
SDoSendGate_NoGate(kind) ==
    /\ flavor = "stream" /\ s.pc = "idle" /\ ~s.upg
    /\ s.ops < MaxSends
    /\ s' = [s EXCEPT !.pc = "push", !.op = kind, !.ops = @ + 1,
                      !.arg = IF kind = "send" THEN MData(s.ops + 1)
                              ELSE MGoUp(s.ops + 1),
                      !.upg = (kind = "upgrade"), !.late = PortDropped]
    /\ UNCHANGED <<flavor, oneshotVars, streamVars, r, tasks, nh, sret, rlog,
                   discarded, failure>>

\* do_send: if self.go_home.load(AcqRel) { return false } (line 78), for
\* send(t) (kind "send") and upgrade(up) (kind "upgrade")
SDoSendGate(kind) ==
    /\ flavor = "stream" /\ s.pc = "idle" /\ ~s.upg
    /\ s.ops < MaxSends
    /\ LET t == IF kind = "send" THEN MData(s.ops + 1) ELSE MGoUp(s.ops + 1)
       IN IF go_home
            THEN /\ s' = [s EXCEPT !.op = kind, !.arg = t, !.ops = @ + 1,
                                   !.upg = (kind = "upgrade"),
                                   !.late = PortDropped]
                 /\ sret' = SReturn(kind, t, "false")
            ELSE /\ s' = [s EXCEPT !.pc = "push", !.op = kind, !.arg = t,
                                   !.ops = @ + 1, !.upg = (kind = "upgrade"),
                                   !.late = PortDropped]
                 /\ UNCHANGED sret
    /\ UNCHANGED <<flavor, oneshotVars, streamVars, r, tasks, nh, rlog, discarded, failure>>

\* do_send: self.queue.push(t) (line 80)
SDoSendPush ==
    /\ flavor = "stream" /\ s.pc = "push"
    /\ queue' = QueuePush(queue, s.arg)
    /\ s' = [s EXCEPT !.pc = "fetch_add"]
    /\ UNCHANGED <<flavor, oneshotVars, cnt, steals, to_wake, go_home, r, tasks, nh,
                   sret, rlog, discarded, failure>>

\* faulty variant: a sender that finds -2 also goes to wake the receiver up
SendArm_WakeOnMinusTwo(n) ==
    CASE n \in {-1, -2} -> "wakeup"
      [] n = STREAM_DISCONNECTED -> "disconnected"
      [] n >= 0 -> "true"
      [] OTHER -> "assert"

\* faulty variant: a sender that finds DISCONNECTED returns without storing it back
SendArm_NoRestore(n) ==
    CASE n = -1 -> "wakeup"
      [] n = -2 -> "true"
      [] n = STREAM_DISCONNECTED -> "true"
      [] n >= 0 -> "true"
      [] OTHER -> "assert"

\* do_send: the arm the value returned by fetch_add selects (lines 81-109)
SendArm(n) ==
    CASE n = -1 -> "wakeup"
      [] n = -2 -> "true"
      [] n = STREAM_DISCONNECTED -> "disconnected"
      [] n >= 0 -> "true"
      [] OTHER -> "assert"

\* do_send: match self.cnt.fetch_add(1, SeqCst)
SDoSendFetchAdd ==
    /\ flavor = "stream" /\ s.pc = "fetch_add"
    /\ cnt' = Wrap(cnt + 1)
    /\ CASE SendArm(cnt) = "wakeup" ->
              /\ s' = [s EXCEPT !.pc = "wakeup", !.n = cnt]
              /\ UNCHANGED <<sret, failure>>
         [] SendArm(cnt) = "true" ->
              /\ s' = [s EXCEPT !.pc = "idle", !.n = cnt]
              /\ sret' = SReturn(s.op, s.arg, "true")
              /\ UNCHANGED failure
         [] SendArm(cnt) = "disconnected" ->
              /\ s' = [s EXCEPT !.pc = "store", !.n = cnt]
              /\ UNCHANGED <<sret, failure>>
         [] OTHER ->
              /\ failure' = "do_send: assert!(n >= 0)"
              /\ s' = Panicked([s EXCEPT !.n = cnt], failure')
              /\ UNCHANGED sret
    /\ UNCHANGED <<flavor, oneshotVars, queue, steals, to_wake, go_home, r, tasks, nh,
                   rlog, discarded>>

\* wakeup: self.to_wake.take_unwrap() (line 264), from do_send or drop_chan
SWakeupTake ==
    /\ flavor = "stream" /\ s.pc = "wakeup"
    /\ IF IsSome(to_wake)
         THEN /\ to_wake' = None
              /\ tasks' = SenderTook(Unwrap(to_wake))
              /\ s' = [s EXCEPT !.pc = "wake", !.n = Unwrap(to_wake)]
              /\ UNCHANGED failure
         ELSE /\ failure' = "wakeup: take_unwrap on None"
              /\ s' = Panicked(s, failure')
              /\ UNCHANGED <<to_wake, tasks>>
    /\ UNCHANGED <<flavor, oneshotVars, queue, cnt, steals, go_home, r, nh, sret,
                   rlog, discarded>>

\* wakeup: .wake().map(|t| t.reawaken(true)), then the caller's return
SWakeupWake ==
    /\ flavor = "stream" /\ s.pc = "wake"
    /\ tasks' = Woke(s.n)
    /\ IF s.op = "drop_chan"
         THEN /\ s' = [s EXCEPT !.pc = "done"]
              /\ sret' = SReturn("drop_chan", 0, "()")
         ELSE /\ s' = [s EXCEPT !.pc = "idle"]
              /\ sret' = SReturn(s.op, s.arg, "true")
    /\ UNCHANGED <<flavor, oneshotVars, streamVars, r, nh, rlog, discarded, failure>>

\* do_send, DISCONNECTED arm: self.cnt.store(DISCONNECTED, SeqCst) (line 95)
SDoSendStore ==
    /\ flavor = "stream" /\ s.pc = "store"
    /\ cnt' = STREAM_DISCONNECTED
    /\ s' = [s EXCEPT !.pc = "pop_first"]
    /\ UNCHANGED <<flavor, oneshotVars, queue, steals, to_wake, go_home, r, tasks, nh,
                   sret, rlog, discarded, failure>>

\* do_send, DISCONNECTED arm: let first = self.queue.pop() (line 96)
SDoSendPopFirst ==
    /\ flavor = "stream" /\ s.pc = "pop_first"
    /\ queue' = QueueRest(queue)
    /\ s' = [s EXCEPT !.pc = "pop_second", !.first = QueuePop(queue)]
    /\ UNCHANGED <<flavor, oneshotVars, cnt, steals, to_wake, go_home, r, tasks, nh,
                   sret, rlog, discarded, failure>>

\* faulty variant: the DISCONNECTED arm reports success whatever it popped
DisconnectedSendResult_AlwaysTrue(first) == "true"

\* do_send, DISCONNECTED arm: `match first`, whether the data was sent
\* (lines 100-103)
DisconnectedSendResult(first) == IF IsSome(first) THEN "false" ELSE "true"

\* do_send, DISCONNECTED arm: second = self.queue.pop(); assert; match first
SDoSendPopSecond ==
    /\ flavor = "stream" /\ s.pc = "pop_second"
    /\ queue' = QueueRest(queue)
    /\ IF IsSome(QueuePop(queue))
         THEN /\ failure' = "do_send: assert!(second.is_none())"
              /\ s' = Panicked(s, failure')
              /\ UNCHANGED <<sret, discarded>>
         ELSE /\ s' = [s EXCEPT !.pc = "idle", !.first = None]
              /\ sret' = SReturn(s.op, s.arg, DisconnectedSendResult(s.first))
              /\ discarded' = IF IsSome(s.first)
                                THEN discarded \cup {Dropped("chan", Unwrap(s.first))}
                                ELSE discarded
              /\ UNCHANGED failure
    /\ UNCHANGED <<flavor, oneshotVars, cnt, steals, to_wake, go_home, r, tasks, nh, rlog>>

\* faulty variant: drop_chan never wakes the receiver
DropChanArm_NoWake(n) ==
    CASE n = STREAM_DISCONNECTED -> "nothing"
      [] n >= -1 -> "nothing"
      [] OTHER -> "assert"

\* drop_chan: the arm the value returned by the swap selects (lines 203-207)
DropChanArm(n) ==
    CASE n = -1 -> "wakeup"
      [] n = STREAM_DISCONNECTED -> "nothing"
      [] n >= 0 -> "nothing"
      [] OTHER -> "assert"

\* drop_chan: match self.cnt.swap(DISCONNECTED, SeqCst)
SDropChan ==
    /\ flavor = "stream" /\ s.pc = "idle"
    /\ cnt' = STREAM_DISCONNECTED
    /\ CASE DropChanArm(cnt) = "wakeup" ->
              /\ s' = [s EXCEPT !.pc = "wakeup", !.op = "drop_chan", !.n = cnt]
              /\ UNCHANGED <<sret, failure>>
         [] DropChanArm(cnt) = "nothing" ->
              /\ s' = [s EXCEPT !.pc = "done", !.op = "drop_chan", !.n = cnt]
              /\ sret' = SReturn("drop_chan", 0, "()")
              /\ UNCHANGED failure
         [] OTHER ->
              /\ failure' = "drop_chan: assert!(n >= 0)"
              /\ s' = Panicked([s EXCEPT !.op = "drop_chan", !.n = cnt], failure')
              /\ UNCHANGED sret
    /\ UNCHANGED <<flavor, oneshotVars, queue, steals, to_wake, go_home, r, tasks, nh,
                   rlog, discarded>>

SSender ==
    \/ \E kind \in {"send", "upgrade"} : SDoSendGate(kind)
    \/ SDoSendPush \/ SDoSendFetchAdd \/ SWakeupTake \/ SWakeupWake
    \/ SDoSendStore \/ SDoSendPopFirst \/ SDoSendPopSecond
    \/ SDropChan

(***************************************************************************)
(* stream::Packet, the receiver                                            *)
(***************************************************************************)

\* faulty variant: a popped GoUp is handed to the receiver as data
MessageResult_AlwaysOk(m) == "Ok"

\* what the receiver gets for a popped message (lines 167-170, 190-191)
MessageResult(m) == IF m.tag = "Data" THEN "Ok" ELSE "Upgraded"

\* faulty variant: recv never offsets the steal counter after its park
OffsetsSteal_Never(res) == FALSE

\* recv: whether the try_recv that follows the park returned a message that
\* offsets the steal counter (lines 151-155)
OffsetsSteal(res) == res \in {"Ok", "Upgraded"}

\* the end of a try_recv that returned res: to the caller of try_recv, or
\* back into recv (lines 114-117, 147-158); st is the steal counter it leaves
STryRecvReturn(res, val, st) ==
    IF r.op = "recv" /\ r.phase = "pre" /\ res = "Empty"
      THEN /\ r' = [r EXCEPT !.pc = "park"]
           /\ steals' = st
           /\ UNCHANGED rlog
      ELSE /\ r' = [r EXCEPT !.pc = "idle"]
           /\ rlog' = RReturn(r.op, res, val)
           /\ steals' = IF r.op = "recv" /\ r.phase = "post" /\ OffsetsSteal(res)
                          THEN st - 1 ELSE st

\* recv: the preflight try_recv starts (line 114)
SRecvStart ==
    /\ flavor = "stream" /\ RCanStart /\ nh < MaxParks
    /\ r' = [r EXCEPT !.pc = "pop", !.op = "recv", !.phase = "pre", !.ops = @ + 1]
    /\ UNCHANGED <<flavor, oneshotVars, streamVars, s, tasks, nh, sret, rlog,
                   discarded, failure>>

\* try_recv: match self.queue.pop() (line 162); Some(data) counts a steal
STryRecvPop ==
    /\ flavor = "stream"
    /\ \/ RCanStart
       \/ r.pc = "pop"
    /\ queue' = QueueRest(queue)
    /\ IF IsSome(QueuePop(queue))
         THEN LET m == Unwrap(QueuePop(queue))
              IN IF r.pc = "idle"
                   THEN /\ r' = [r EXCEPT !.op = "try_recv", !.phase = "", !.ops = @ + 1]
                        /\ rlog' = RReturn("try_recv", MessageResult(m), m.val)
                        /\ steals' = steals + 1
                   ELSE STryRecvReturn(MessageResult(m), m.val, steals + 1)
         ELSE /\ r' = IF r.pc = "idle"
                        THEN [r EXCEPT !.pc = "load", !.op = "try_recv", !.phase = "",
                                       !.ops = @ + 1]
                        ELSE [r EXCEPT !.pc = "load"]
              /\ UNCHANGED <<rlog, steals>>
    /\ UNCHANGED <<flavor, oneshotVars, cnt, to_wake, go_home, s, tasks, nh, sret,
                   discarded, failure>>

\* faulty variant: an empty queue with a counter of zero or less is taken for a
\* disconnected channel
StillConnected_Positive(n) == n > 0

\* try_recv, None arm: `n if n != DISCONNECTED => Err(Empty)` (line 175)
StillConnected(n) == n # STREAM_DISCONNECTED

\* try_recv, None arm: match self.cnt.load(SeqCst) (lines 174-175)
STryRecvLoad ==
    /\ flavor = "stream" /\ r.pc = "load"
    /\ IF StillConnected(cnt)
         THEN STryRecvReturn("Empty", 0, steals)
         ELSE /\ r' = [r EXCEPT !.pc = "pop_again"]
              /\ UNCHANGED <<rlog, steals>>
    /\ UNCHANGED <<flavor, oneshotVars, queue, cnt, to_wake, go_home, s, tasks, nh,
                   sret, discarded, failure>>

\* try_recv, disconnected: match self.queue.pop() once more (lines 189-193)
STryRecvPopAgain ==
    /\ flavor = "stream" /\ r.pc = "pop_again"
    /\ queue' = QueueRest(queue)
    /\ IF IsSome(QueuePop(queue))
         THEN LET m == Unwrap(QueuePop(queue))
              IN STryRecvReturn(MessageResult(m), m.val, steals)
         ELSE STryRecvReturn("Disconnected", 0, steals)
    /\ UNCHANGED <<flavor, oneshotVars, cnt, to_wake, go_home, s, tasks, nh, sret,
                   discarded, failure>>

\* faulty variant: recv folds the steals into the counter without resetting
\* self.steals
SRecvDeposit_KeepsSteals ==
    /\ flavor = "stream" /\ r.pc = "park"
    /\ IF IsSome(to_wake)
         THEN /\ failure' = "recv: assert!(self.to_wake.is_none())"
              /\ r' = Panicked(r, failure')
              /\ UNCHANGED <<to_wake, steals, nh>>
         ELSE /\ to_wake' = Some(nh + 1)
              /\ nh' = nh + 1
              /\ steals' = steals
              /\ r' = [r EXCEPT !.pc = "fetch_sub", !.h = nh + 1, !.steals = steals]
              /\ UNCHANGED failure
    /\ UNCHANGED <<flavor, oneshotVars, queue, cnt, go_home, s, tasks, sret, rlog,
                   discarded>>

\* recv, the deschedule closure: to_wake = Some(task); steals folded (125-128)
SRecvDeposit ==
    /\ flavor = "stream" /\ r.pc = "park"
    /\ IF IsSome(to_wake)
         THEN /\ failure' = "recv: assert!(self.to_wake.is_none())"
              /\ r' = Panicked(r, failure')
              /\ UNCHANGED <<to_wake, steals, nh>>
         ELSE /\ to_wake' = Some(nh + 1)
              /\ nh' = nh + 1
              /\ steals' = 0
              /\ r' = [r EXCEPT !.pc = "fetch_sub", !.h = nh + 1, !.steals = steals]
              /\ UNCHANGED failure
    /\ UNCHANGED <<flavor, oneshotVars, queue, cnt, go_home, s, tasks, sret, rlog,
                   discarded>>

\* faulty variant: off by one, the park is cancelled when nothing is left to receive
StaysParked_Strict(n, st) == n - st < 0

\* faulty variant: the receiver stays descheduled when the value the subtract
\* leaves, n - steals - 1, is zero or less
StaysParked_ResultNotPositive(n, st) == n - st - 1 <= 0

\* recv: `n if n - steals <= 0 => Ok(())`, the receiver stays descheduled
StaysParked(n, st) == n - st <= 0

\* recv: match self.cnt.fetch_sub(1 + steals, SeqCst) (lines 130-144)
SRecvFetchSub ==
    /\ flavor = "stream" /\ r.pc = "fetch_sub"
    /\ cnt' = Wrap(cnt - (1 + r.steals))
    /\ r' = NoteSender([r EXCEPT !.n = cnt,
                      !.pc = IF cnt = STREAM_DISCONNECTED THEN "restore"
                             ELSE IF StaysParked(cnt, r.steals) THEN "parked"
                             ELSE "cancel"])
    /\ UNCHANGED <<flavor, oneshotVars, queue, steals, to_wake, go_home, s, tasks, nh,
                   sret, rlog, discarded, failure>>

\* recv, DISCONNECTED arm: self.cnt.store(DISCONNECTED, SeqCst) (line 134)
SRecvRestore ==
    /\ flavor = "stream" /\ r.pc = "restore"
    /\ cnt' = STREAM_DISCONNECTED
    /\ r' = [r EXCEPT !.pc = "cancel"]
    /\ UNCHANGED <<flavor, oneshotVars, queue, steals, to_wake, go_home, s, tasks, nh,
                   sret, rlog, discarded, failure>>

\* recv: Err(self.to_wake.take_unwrap()), the park is cancelled (135, 143)
SRecvCancel ==
    /\ flavor = "stream" /\ r.pc = "cancel"
    /\ IF IsSome(to_wake)
         THEN /\ to_wake' = None
              /\ tasks' = ReceiverTook(Unwrap(to_wake))
              /\ r' = [r EXCEPT !.pc = "pop", !.phase = "post"]
              /\ UNCHANGED failure
         ELSE /\ failure' = "recv: take_unwrap on None"
              /\ r' = Panicked(r, failure')
              /\ UNCHANGED <<to_wake, tasks>>
    /\ UNCHANGED <<flavor, oneshotVars, queue, cnt, steals, go_home, s, nh, sret,
                   rlog, discarded>>

\* the descheduled task runs again once wake() was called on its handle
SRecvWoken ==
    /\ flavor = "stream" /\ r.pc = "parked"
    /\ tasks[r.h].wake > 0
    /\ r' = NoteSender([r EXCEPT !.pc = "pop", !.phase = "post"])
    /\ UNCHANGED <<flavor, oneshotVars, streamVars, s, tasks, nh, sret, rlog,
                   discarded, failure>>

\* drop_port: self.go_home.store(true); let mut steals = self.steals (230, 240)
SDropPortFlag ==
    /\ flavor = "stream" /\ r.pc = "idle"
    /\ go_home' = TRUE
    /\ r' = [r EXCEPT !.pc = "cas", !.op = "drop_port", !.steals = steals]
    /\ UNCHANGED <<flavor, oneshotVars, queue, cnt, steals, to_wake, s, tasks, nh,
                   sret, rlog, discarded, failure>>

\* faulty variant: drop_port's loop goes on when it finds DISCONNECTED
DrainAgain_OnDisconnected(c, st) == c # st

\* faulty variant: drop_port never enters its drain loop
DrainAgain_Never(c, st) == FALSE

\* drop_port: the loop condition, for the value cnt the compare_and_swap
\* returned (line 244)
DrainAgain(c, st) == c # STREAM_DISCONNECTED /\ c # st

\* drop_port: compare_and_swap(steals, DISCONNECTED, SeqCst) (lines 242-244)
SDropPortCas ==
    /\ flavor = "stream" /\ r.pc = "cas"
    /\ cnt' = CompareAndSwap(cnt, r.steals, STREAM_DISCONNECTED)
    /\ IF DrainAgain(cnt, r.steals)
         THEN /\ r' = [r EXCEPT !.pc = "drain", !.n = cnt]
              /\ UNCHANGED rlog
         ELSE /\ r' = [r EXCEPT !.pc = "done", !.n = cnt]
              /\ rlog' = RReturn("drop_port", "()", 0)
    /\ UNCHANGED <<flavor, oneshotVars, queue, steals, to_wake, go_home, s, tasks, nh,
                   sret, discarded, failure>>

\* drop_port: one self.queue.pop() of the drain loop (lines 246-251)
SDropPortDrain ==
    /\ flavor = "stream" /\ r.pc = "drain"
    /\ queue' = QueueRest(queue)
    /\ IF IsSome(QueuePop(queue))
         THEN /\ r' = [r EXCEPT !.steals = @ + 1]
              /\ discarded' = discarded \cup {Dropped("port", Unwrap(QueuePop(queue)))}
         ELSE /\ r' = [r EXCEPT !.pc = "cas"]
              /\ UNCHANGED discarded
    /\ UNCHANGED <<flavor, oneshotVars, cnt, steals, to_wake, go_home, s, tasks, nh,
                   sret, rlog, failure>>

\* Drop for Packet: assert_eq!(cnt, DISCONNECTED); assert!(to_wake.is_none()),
\* run once both endpoints have dropped
SDestroy ==
    /\ flavor = "stream" /\ s.pc = "done" /\ r.pc = "done"
    /\ failure' = IF cnt # STREAM_DISCONNECTED
                    THEN "drop: assert_eq!(cnt, DISCONNECTED)"
                  ELSE IF IsSome(to_wake) THEN "drop: assert!(to_wake.is_none())"
                  ELSE failure
    /\ s' = [s EXCEPT !.pc = "destroyed"]
    /\ r' = [r EXCEPT !.pc = "destroyed"]
    /\ UNCHANGED <<flavor, oneshotVars, streamVars, tasks, nh, sret, rlog, discarded>>

SReceiver ==
    \/ SRecvStart \/ STryRecvPop \/ STryRecvLoad \/ STryRecvPopAgain
    \/ SRecvDeposit \/ SRecvFetchSub \/ SRecvRestore \/ SRecvCancel \/ SRecvWoken
    \/ SDropPortFlag \/ SDropPortCas \/ SDropPortDrain

Next ==
    \/ OSender \/ OReceiver \/ ODestroy
    \/ SSender \/ SReceiver \/ SDestroy

Spec == Init /\ [][Next]_vars

\* An operation that was called runs to its end: a task that is inside a
\* call keeps being scheduled.  Nothing obliges a caller to start a call.
SenderContinues == s.pc # "idle" /\ (OSender \/ SSender)
ReceiverContinues == r.pc # "idle" /\ (OReceiver \/ SReceiver)

FairSpec == Spec /\ WF_vars(SenderContinues) /\ WF_vars(ReceiverContinues)

(***************************************************************************)
(* What the logs say                                                       *)
(***************************************************************************)

IsReceive(e) == e.op \in {"recv", "try_recv"}
IsMessage(e) == IsReceive(e) /\ e.res \in {"Ok", "Upgraded"}
\* the results of the receiver's try_recv / recv calls, in order
Receives == SelectSeq(rlog, IsReceive)
\* the messages the receiver was given, in order
Got == SelectSeq(rlog, IsMessage)

IsSendOp(e) == e.op \in {"send", "upgrade"}
\* the sender's finished send / upgrade calls, in order
SentOps == SelectSeq(sret, IsSendOp)
\* the message of the sender's i-th send / upgrade call (stream)
Started(i) == IF i <= Len(SentOps) THEN SentOps[i].arg ELSE s.arg

NQueue(m) == Cardinality({i \in 1..Len(queue) : queue[i] = m})
NGot(m) == Cardinality({i \in 1..Len(Got) : Got[i].val = m.val})
NDropped(by, m) == IF Dropped(by, m) \in discarded THEN 1 ELSE 0

C2_Fifo ==
    flavor = "stream" =>
        \A i \in 1..Len(Got) :
            /\ i <= s.ops
            /\ Got[i].val = Started(i).val
            /\ Got[i].res = IF Started(i).tag = "Data" THEN "Ok" ELSE "Upgraded"

\* two values and then the upgrade were received
C2_Witness ==
    /\ flavor = "stream"
    /\ Len(Got) = 3
    /\ Got[1].res = "Ok" /\ Got[2].res = "Ok" /\ Got[3].res = "Upgraded"

\* the sender call `op` had returned `ret` among the first n sender returns
Returned(op, ret, n) == \E k \in 1..n : sret[k].op = op /\ sret[k].ret = ret

(***************************************************************************)
(* C3.  OneshotPacket upgrade transparency: if send(v) returned true and   *)
(* upgrade(p) returned UpSuccess before the receiver took v, then the      *)
(* receive that returns Ok(v) is the first one that does not return Empty  *)
(* and the receive after it returns Upgraded(p).  A receive never returns  *)
(* Upgraded(p) while v is in the data slot: if a value was sent, Ok(v) was *)
(* returned before Upgraded(p).                                            *)
(***************************************************************************)
C3_UpgradeTransparency ==
    flavor = "oneshot" =>
        \A i \in 1..Len(Receives) :
            /\ (/\ Receives[i].res = "Ok"
                /\ Returned("send", "true", Receives[i].at)
                /\ Returned("upgrade", "UpSuccess", Receives[i].at))
               => /\ \A j \in 1..(i - 1) : Receives[j].res = "Empty"
                  /\ \E k \in 1..Len(sret) :
                        sret[k].op = "send" /\ sret[k].arg = Receives[i].val
                  /\ i < Len(Receives) =>
                        /\ Receives[i + 1].res = "Upgraded"
                        /\ \E k \in 1..Len(sret) :
                              sret[k].op = "upgrade" /\ sret[k].arg = Receives[i + 1].val
            /\ Receives[i].res = "Upgraded"
               => /\ data = None
                  /\ Returned("send", "true", Len(sret))
                        => \E j \in 1..(i - 1) : Receives[j].res = "Ok"

\* S3: send, upgrade -> UpSuccess, then a receive returns the data and the
\* next receive returns the upgrade
C3_Witness ==
    /\ flavor = "oneshot"
    /\ \E i \in 1..Len(Receives) :
          /\ Receives[i].res = "Ok"
          /\ Returned("send", "true", Receives[i].at)
          /\ Returned("upgrade", "UpSuccess", Receives[i].at)
          /\ i < Len(Receives)
          /\ Receives[i + 1].res = "Upgraded"

\* the sender has run drop_chan's swap
ChanDropped == s.op = "drop_chan"

(***************************************************************************)
(* C4.  On both packets try_recv/recv returns Disconnected only when the   *)
(* sender has run drop_chan, no upgrade is pending and no data remains     *)
(* (oneshot: the data slot is empty; stream: the queue is empty), and      *)
(* every value sent successfully before drop_chan was returned by an       *)
(* earlier receive.                                                        *)
(***************************************************************************)
C4_DisconnectedLast ==
    \A i \in 1..Len(Receives) :
        Receives[i].res = "Disconnected" =>
            /\ ChanDropped
            /\ data = None
            /\ ~IsGoUp(upgrade)
            /\ queue = <<>>
            /\ \A k \in 1..Len(SentOps) :
                  (SentOps[k].ret = "true") =>
                      \E j \in 1..(i - 1) :
                          /\ Receives[j].res \in {"Ok", "Upgraded"}
                          /\ Receives[j].val =
                                IF flavor = "stream" THEN SentOps[k].arg.val
                                ELSE SentOps[k].arg

\* S5: values sent and received, drop_chan, and then Disconnected
C4_Witness ==
    /\ flavor = "stream"
    /\ Len(Receives) = 3
    /\ Receives[1].res = "Ok" /\ Receives[2].res = "Ok"
    /\ Receives[3].res = "Disconnected"

(***************************************************************************)
(* C5.  The blocking recv of either packet never returns Empty: whenever   *)
(* it returns (having skipped the park, after a cancelled park, or after   *)
(* being woken) its result is Ok(value), Disconnected or Upgraded(port).   *)
(***************************************************************************)
C5_RecvNeverEmpty ==
    \A i \in 1..Len(rlog) :
        rlog[i].op = "recv" => rlog[i].res \in {"Ok", "Disconnected", "Upgraded"}

\* two recv calls on a stream have returned: one whose park was cancelled
\* and one that was woken by the sender
C5_Witness ==
    /\ flavor = "stream"
    /\ Cardinality({i \in 1..Len(rlog) : rlog[i].op = "recv"}) = 2
    /\ \E i, j \in 1..MaxParks :
          /\ tasks[i].rt = 1
          /\ tasks[j].wake = 1

\* the receiver is descheduled inside recv, its handle deposited
Parked == r.pc = "parked"

\* the recv call has just returned to its caller
RecvReturned == r.pc = "idle" /\ r.op = "recv"

\* the sender has handed the parked handle to the caller of upgrade (UpWoke),
\* who has not called wake on it yet
CallerHoldsHandle == s.pc = "up_woke"

\* a message the receiver has already been given
Received(v) == \E j \in 1..Len(rlog) : IsMessage(rlog[j]) /\ rlog[j].val = v

\* the sender operations that returned since the receiver parked
SinceParked == (r.seen + 1)..Len(sret)

\* the value or port a send or upgrade carried
Carried(e) == IF flavor = "stream" THEN e.arg.val ELSE e.arg

\* those among them that were not a send of a value the receiver had already
\* been given before it parked
OwedWake ==
    {k \in SinceParked : ~(IsSendOp(sret[k]) /\ Received(Carried(sret[k])))}

\* a sent value or a disconnect is waiting for the receiver
Pending ==
    IF flavor = "stream"
      THEN queue # <<>> \/ cnt = STREAM_DISCONNECTED
      ELSE IsSome(data) \/ IsGoUp(upgrade) \/ state = DISCONNECTED

(***************************************************************************)
(* C6, as stated.  Whenever the receiver is parked in recv and a sender    *)
(* operation has completed since it parked (the caller of an upgrade that  *)
(* returned UpWoke having woken the handle), the parked handle has been    *)
(* woken.                                                                  *)
(***************************************************************************)
C6_Original ==
    (Parked /\ SinceParked # {} /\ ~CallerHoldsHandle) => tasks[r.h].wake > 0

(***************************************************************************)
(* C6, amended.  Lossless wake delivery: if the receiver has parked in     *)
(* recv and the sender afterwards completes a send, upgrade or drop_chan,  *)
(* other than a send whose value the receiver had already been given       *)
(* before it parked (stream: the fetch_add that returns -2; oneshot: the   *)
(* send that took the handle of an aborted selection), then the parked     *)
(* handle has been woken by the time the operation returns, or is held by  *)
(* the caller of upgrade; and under fair scheduling a receiver that is     *)
(* parked while such an operation has completed, or while a sent value or  *)
(* a disconnect is pending, eventually returns from recv.                  *)
(***************************************************************************)
C6_WakeDelivery ==
    /\ []((Parked /\ OwedWake # {} /\ ~CallerHoldsHandle) => tasks[r.h].wake > 0)
    /\ (Parked /\ (OwedWake # {} \/ Pending)) ~> RecvReturned

\* a stream recv that parked has returned after the sender took its handle
\* and woke it
C6_Witness ==
    /\ flavor = "stream"
    /\ RecvReturned
    /\ r.phase = "post"
    /\ tasks[r.h].st = 1 /\ tasks[r.h].wake = 1

(***************************************************************************)
(* C7.  At most one wake per park: every task handle deposited into a      *)
(* packet is taken out by at most one party (the sender's send, upgrade or *)
(* drop_chan, or the receiver's own cancellation), wake or trash is        *)
(* invoked on it at most once in total and only by the party that took it, *)
(* and no party finds the to-wake slot of a stream in the wrong state.     *)
(***************************************************************************)
C7_OneWakePerPark ==
    /\ \A i \in 1..MaxParks :
          /\ tasks[i].st + tasks[i].rt <= 1
          /\ tasks[i].wake + tasks[i].trash <= 1
          /\ tasks[i].wake <= tasks[i].st
          /\ tasks[i].trash <= tasks[i].rt
    /\ failure \notin {"wakeup: take_unwrap on None", "recv: take_unwrap on None",
                       "recv: assert!(self.to_wake.is_none())"}

\* a oneshot on which the receiver's abort_selection trashed one handle and
\* the sender took and woke another
C7_Witness ==
    /\ flavor = "oneshot"
    /\ \E i, j \in 1..MaxParks :
          /\ tasks[i].rt = 1 /\ tasks[i].trash = 1
          /\ tasks[j].st = 1 /\ tasks[j].wake = 1

(***************************************************************************)
(* C8.  OneshotPacket selection round-trip: when abort_selection returns   *)
(* after start_selection(h) returned SelSuccess, then if the sender has    *)
(* not swapped the state word in between it returns false, trashes h and   *)
(* leaves the state word EMPTY; if the sender's send, upgrade or drop_chan *)
(* swapped the word in between, it returns true, does not trash h, and h   *)
(* was obtained by the sender.                                             *)
(***************************************************************************)
AbortReturns ==
    /\ Len(rlog') = Len(rlog) + 1
    /\ rlog'[Len(rlog')].op = "abort_selection"

C8_SelectionRoundTrip ==
    [][AbortReturns =>
         LET e == rlog'[Len(rlog')]
             h == e.val
         IN /\ rlog[Len(rlog)].op = "start_selection"
            /\ rlog[Len(rlog)].res = "SelSuccess"
            /\ rlog[Len(rlog)].val = h
            /\ IF tasks[h].st = 0
                 THEN /\ e.res = "false"
                      /\ tasks'[h].rt = 1 /\ tasks'[h].trash = 1
                      /\ state' = EMPTY
                 ELSE /\ e.res = "true"
                      /\ tasks'[h].rt = 0 /\ tasks'[h].trash = 0
                      /\ tasks'[h].st = 1]_vars

\* both outcomes have happened: one selection aborted undisturbed, one
\* after the sender took the handle
C8_Witness ==
    /\ \E i \in 1..Len(rlog) : rlog[i].op = "abort_selection" /\ rlog[i].res = "false"
    /\ \E i \in 1..Len(rlog) : rlog[i].op = "abort_selection" /\ rlog[i].res = "true"

(***************************************************************************)
(* C9.  OneshotPacket terminal stickiness: once the state word holds       *)
(* DISCONNECTED, every later value of the state word is DISCONNECTED.      *)
(***************************************************************************)
C9_OneshotSticky ==
    [][(flavor = "oneshot" /\ state = DISCONNECTED) => state' = DISCONNECTED]_vars

(***************************************************************************)
(* C10.  StreamPacket terminal stickiness, as stated: once the counter     *)
(* holds DISCONNECTED it never again holds another value, a later          *)
(* fetch-add or fetch-subtract included.                                   *)
(***************************************************************************)
C10_Original ==
    [][(flavor = "stream" /\ cnt = STREAM_DISCONNECTED)
          => cnt' = STREAM_DISCONNECTED]_vars

\* the sender is between do_send's fetch_add and its store, or the receiver
\* between recv's fetch_sub and its store
InRestoreWindow(sender, receiver) == sender.pc = "store" \/ receiver.pc = "restore"

(***************************************************************************)
(* C10, amended.  Once the counter holds DISCONNECTED, the only steps that *)
(* change it are the fetch_add of a do_send and the fetch_sub of a recv    *)
(* park attempt that found DISCONNECTED; the very next step of the packet  *)
(* is that operation's store of DISCONNECTED, and while the counter is off *)
(* the other endpoint has dropped, so no operation reads the value.        *)
(***************************************************************************)
C10_StickyAtRest ==
    [][flavor = "stream" =>
         /\ (cnt = STREAM_DISCONNECTED /\ cnt' # STREAM_DISCONNECTED)
               => InRestoreWindow(s', r')
         /\ InRestoreWindow(s, r) => cnt' = STREAM_DISCONNECTED
         /\ s.pc = "store" => r.pc = "done"
         /\ r.pc = "restore" => s.pc = "done"]_vars

\* a do_send has added to a DISCONNECTED counter and stored DISCONNECTED back
C10_Witness ==
    /\ flavor = "stream"
    /\ s.pc = "pop_first"
    /\ cnt = STREAM_DISCONNECTED

\* a send or upgrade returns to its caller in this step
SendReturns ==
    /\ Len(sret') = Len(sret) + 1
    /\ IsSendOp(sret'[Len(sret')])

\* whether the call that returns in this step started after drop_port had
\* returned
StartedLate == IF s.pc = "idle" THEN PortDropped ELSE s.late

(***************************************************************************)
(* C11.  Sends after the receiver is gone fail: on a stream every send or  *)
(* upgrade that starts after drop_port has returned returns false in its   *)
(* first step and pushes nothing onto the queue; on a oneshot a send that  *)
(* starts after drop_port has returned returns false and leaves the data   *)
(* slot empty, the value having been dropped.                              *)
(***************************************************************************)
C11_LateSendsFail ==
    [][(SendReturns /\ StartedLate) =>
         LET e == sret'[Len(sret')]
         IN IF flavor = "stream"
              THEN /\ e.ret = "false"
                   /\ s.pc = "idle"
                   /\ queue' = queue
              ELSE e.op = "send" =>
                     /\ e.ret = "false"
                     /\ data' = None
                     /\ Dropped("chan", MData(e.arg)) \in discarded']_vars

\* a oneshot send that started after drop_port had returned has returned
\* false
C11_Witness ==
    /\ flavor = "oneshot"
    /\ s.pc = "idle" /\ s.op = "send" /\ s.late
    /\ sret[Len(sret)].ret = "false"
    /\ data = None

\* drop_chan and drop_port have both returned
BothDropped == s.pc \in {"done", "destroyed"} /\ PortDropped

(***************************************************************************)
(* C12.  Destructor assertions hold: whenever drop_chan and drop_port have *)
(* both returned, in either order, the oneshot's state word is             *)
(* DISCONNECTED, the stream's counter is DISCONNECTED and its to-wake slot *)
(* is empty, and the destructor that then runs fails no assertion.         *)
(***************************************************************************)
C12_DestructorAsserts ==
    /\ BothDropped =>
         IF flavor = "oneshot"
           THEN state = DISCONNECTED
           ELSE cnt = STREAM_DISCONNECTED /\ to_wake = None
    /\ failure \notin {"drop: assert_eq!(state, DISCONNECTED)",
                       "drop: assert_eq!(cnt, DISCONNECTED)",
                       "drop: assert!(to_wake.is_none())"}

\* the destructor of a oneshot has run after a send that found the receiver
\* gone, the receiver having dropped first
C12_Witness ==
    /\ flavor = "oneshot"
    /\ s.pc = "destroyed"
    /\ \E k \in 1..Len(sret) : sret[k].op = "send" /\ sret[k].ret = "false"

(***************************************************************************)
(* C13, as stated.  OneshotPacket drop cleanliness: after both drop_chan   *)
(* and drop_port have returned, the data slot is empty.                    *)
(***************************************************************************)
C13_Original == (flavor = "oneshot" /\ BothDropped) => data = None

\* the values whose send returned true and that were neither handed to the
\* receiver nor taken out by drop_port
Unclaimed ==
    {v \in 1..MaxSends :
        /\ \E k \in 1..Len(sret) :
              sret[k].op = "send" /\ sret[k].ret = "true" /\ sret[k].arg = v
        /\ ~Received(v)
        /\ Dropped("port", MData(v)) \notin discarded}

\* the sender had stored DISCONNECTED (drop_chan or upgrade had returned)
\* when drop_port returned
DisconnectedBeforePortDrop ==
    \E i \in 1..Len(rlog) :
        /\ rlog[i].op = "drop_port"
        /\ \E k \in 1..rlog[i].at : sret[k].op \in {"drop_chan", "upgrade"}

(***************************************************************************)
(* C13, amended.  After both drop_chan and drop_port have returned, the    *)
(* data slot of a oneshot holds exactly the value, if any, whose send      *)
(* returned true and that was neither received nor taken out by drop_port; *)
(* a value is left there only when the sender's drop_chan or upgrade had   *)
(* stored DISCONNECTED before drop_port's swap, whose DISCONNECTED arm     *)
(* takes nothing.  The value then stays until the packet is destroyed.     *)
(***************************************************************************)
C13_DropCleanliness ==
    (flavor = "oneshot" /\ BothDropped) =>
        /\ data = IF Unclaimed = {} THEN None ELSE Some(CHOOSE v \in Unclaimed : TRUE)
        /\ Cardinality(Unclaimed) <= 1
        /\ data # None => DisconnectedBeforePortDrop

\* both endpoints have dropped and drop_port took the sent value out
C13_Witness ==
    /\ flavor = "oneshot"
    /\ BothDropped
    /\ data = None
    /\ \E v \in 1..MaxSends : Dropped("port", MData(v)) \in discarded

StreamUnclaimed(e) ==
    /\ e.ret = "true"
    /\ ~Received(e.arg.val)
    /\ Dropped("port", e.arg) \notin discarded

\* drop_port's last compare_and_swap returned DISCONNECTED
PortDropFoundDisconnected == r.op = "drop_port" /\ r.n = STREAM_DISCONNECTED

C15_DataMeansOccupied == (flavor = "oneshot" /\ state = DATA) => IsSome(data)

\* the receiver is descheduled, or between start_selection and the end of
\* abort_selection, on the handle the state word holds
ParkedOn(n) ==
    /\ r.pc \in {"parked", "selecting", "ab_cas"}
    /\ CastToUint(r.h) = n
    /\ tasks[r.h] = NoTask

(***************************************************************************)
(* C16, as stated.  OneshotPacket invariant: in every reachable state in   *)
(* which the state word holds a parked task handle, exactly one receiver   *)
(* is parked, the data slot is empty and the upgrade slot is NothingSent.  *)
(***************************************************************************)
C16_Original ==
    (flavor = "oneshot" /\ IsTask(state)) =>
        /\ ParkedOn(state)
        /\ data = None
        /\ upgrade = NothingSent

(***************************************************************************)
(* C16, amended.  In every reachable state in which the state word holds a *)
(* task handle, the receiver is parked on exactly that handle and nobody   *)
(* has taken it; the data slot is empty unless a send has written it and   *)
(* not yet swapped the state word; the upgrade slot is NothingSent, or     *)
(* SendUsed because of that send in progress or because the single value   *)
(* was sent and received before the receiver parked again, or GoUp written *)
(* by an upgrade that has not yet swapped the state word.                  *)
(***************************************************************************)
C16_ParkedHandle ==
    (flavor = "oneshot" /\ IsTask(state)) =>
        /\ ParkedOn(state)
        /\ IsSome(data) => s.pc = "send_swap"
        /\ \/ upgrade = NothingSent
           \/ /\ upgrade = SendUsed
              /\ \/ s.pc = "send_swap" /\ IsSome(data)
                 \/ /\ data = None
                    /\ \E k \in 1..Len(sret) :
                          /\ sret[k].op = "send"
                          /\ sret[k].ret = "true"
                          /\ Received(sret[k].arg)
                 \/ /\ data = None
                    /\ s.pc = "send_wake" /\ Received(s.arg)
           \/ IsGoUp(upgrade) /\ s.pc = "up_swap"

\* the receiver has parked again after it received the single sent value
C16_Witness ==
    /\ flavor = "oneshot"
    /\ IsTask(state)
    /\ r.pc = "parked"
    /\ upgrade = SendUsed
    /\ data = None

(***************************************************************************)
(* C17, as stated.  OneshotPacket invariant: in every reachable state in   *)
(* which the upgrade slot is GoUp(port), the state word is DISCONNECTED.   *)
(***************************************************************************)
C17_Original == (flavor = "oneshot" /\ IsGoUp(upgrade)) => state = DISCONNECTED

(***************************************************************************)
(* C17, amended.  In every reachable state in which the upgrade slot is    *)
(* GoUp(port), the state word is DISCONNECTED, except while the upgrade    *)
(* that stored GoUp has not yet swapped the state word; once that swap is  *)
(* done the word is DISCONNECTED for as long as the slot holds GoUp.       *)
(***************************************************************************)
C17_GoUpMeansDisconnected ==
    (flavor = "oneshot" /\ IsGoUp(upgrade)) =>
        \/ state = DISCONNECTED
        \/ s.pc = "up_swap"

\* an upgrade has returned UpSuccess and its port is in the upgrade slot
C17_Witness ==
    /\ flavor = "oneshot"
    /\ IsGoUp(upgrade)
    /\ s.pc = "idle" /\ s.op = "upgrade"
    /\ sret[Len(sret)].ret = "UpSuccess"

\* the step of recv that subtracts from a counter that is not DISCONNECTED
ParkDecision ==
    /\ flavor = "stream"
    /\ r.pc = "fetch_sub" /\ r'.pc # "fetch_sub"
    /\ cnt # STREAM_DISCONNECTED

(***************************************************************************)
(* C18, as stated.  StreamPacket.recv park decision: after the subtract of *)
(* (1 + steals) from a counter other than DISCONNECTED, the receiver stays *)
(* parked exactly when the resulting counter value is <= 0, and otherwise  *)
(* cancels the park.                                                       *)
(***************************************************************************)
C18_Original ==
    [][ParkDecision =>
          /\ cnt' = cnt - (1 + r.steals)
          /\ r'.pc = IF cnt' <= 0 THEN "parked" ELSE "cancel"]_vars

(***************************************************************************)
(* C18, amended.  After the subtract of (1 + steals) from a counter other  *)
(* than DISCONNECTED, the receiver stays parked exactly when the resulting *)
(* counter value is negative (the prior value minus steals is <= 0), and   *)
(* otherwise, a result of zero included, cancels the park: it then takes   *)
(* its own handle back out of the to-wake slot and retries try_recv.       *)
(***************************************************************************)
C18_ParkDecision ==
    [][/\ ParkDecision =>
            /\ cnt' = cnt - (1 + r.steals)
            /\ r'.pc = IF cnt' < 0 THEN "parked" ELSE "cancel"
            /\ to_wake' = Some(r.h)
       /\ (flavor = "stream" /\ r.pc = "cancel" /\ r'.pc # "cancel") =>
            /\ to_wake = Some(r.h)
            /\ to_wake' = None
            /\ tasks'[r.h] = [NoTask EXCEPT !.rt = 1]
            /\ r'.pc = "pop"]_vars

\* the subtract left the counter at zero and the park is being cancelled
C18_Witness ==
    /\ flavor = "stream"
    /\ r.pc = "cancel"
    /\ r.n # STREAM_DISCONNECTED
    /\ r.n - r.steals = 1

\* drop_port has stored the shutdown flag and is in its CAS/drain loop
InDropPortLoop == flavor = "stream" /\ r.pc \in {"cas", "drain"}

(***************************************************************************)
(* C19.  StreamPacket.drop_port terminates: once the shutdown flag is      *)
(* stored no further send gets past the gate, so at most the one send in   *)
(* flight still touches the queue and the counter; under fair scheduling   *)
(* of sender and receiver the CAS/drain loop exits, and the step on which  *)
(* it exits leaves the counter DISCONNECTED.                               *)
(***************************************************************************)
C19_DropPortTerminates ==
    /\ InDropPortLoop ~> (r.pc = "done")
    /\ [][(InDropPortLoop /\ r'.pc = "done") => cnt' = STREAM_DISCONNECTED]_vars
    /\ [][(flavor = "stream" /\ go_home /\ s.pc = "idle")
             => s'.pc \in {"idle", "done", "wakeup"}]_vars

\* drop_port has returned after its loop drained two messages
C19_Witness ==
    /\ flavor = "stream"
    /\ r.pc = "done"
    /\ Cardinality({e \in discarded : e.by = "port"}) >= 2

\* an upgrade returns to its caller in this step
UpgradeReturns ==
    /\ flavor = "oneshot"
    /\ Len(sret') = Len(sret) + 1
    /\ sret'[Len(sret')].op = "upgrade"

(***************************************************************************)
(* C20.  OneshotPacket.upgrade after the receiver has gone: an upgrade     *)
(* that starts after drop_port has returned, with or without an earlier    *)
(* send that returned false, returns UpDisconnected and leaves the upgrade *)
(* slot at the value it had before the call (NothingSent or SendUsed); it  *)
(* never returns UpSuccess.                                                *)
(***************************************************************************)
C20_LateUpgradeDisconnected ==
    [][(UpgradeReturns /\ StartedLate) =>
         /\ sret'[Len(sret')].ret = "UpDisconnected"
         /\ upgrade' = s.prev
         /\ s.prev \in {NothingSent, SendUsed}]_vars

\* the receiver takes a step of can_recv
CanRecvStep ==
    /\ flavor = "oneshot"
    /\ \/ r.pc = "idle" /\ r'.op = "can_recv" /\ r'.ops = r.ops + 1
       \/ r.pc = "cr_disc"

\* the answer can_recv gives when the packet is as described by the state
\* word st, the data slot d and the upgrade slot up
CanRecvAnswer(st, d, up) ==
    IF st = EMPTY THEN <<"Ok(false)", 0>>
    ELSE IF st = DATA \/ IsSome(d) \/ ~IsGoUp(up) THEN <<"Ok(true)", 0>>
    ELSE <<"Err", up[2]>>

\* the original statement: no step of can_recv changes the state word, the
\* data slot or the upgrade slot
C21_Original ==
    [][CanRecvStep =>
         /\ state' = state
         /\ data' = data
         /\ upgrade' = upgrade]_vars

(***************************************************************************)
(* C21.  OneshotPacket.can_recv polls without consuming data: it never     *)
(* changes the state word or the data slot, and it leaves the upgrade slot *)
(* unchanged whenever it returns Ok(_).  When the word is DISCONNECTED,    *)
(* the data slot is empty and the upgrade slot holds GoUp(port) it moves   *)
(* the port out, leaving SendUsed, and returns Err(port).  Its answer is   *)
(* determined by the word, the data slot and the upgrade slot it finds.    *)
(***************************************************************************)
C21_CanRecvPoll ==
    [][CanRecvStep =>
         /\ state' = state
         /\ data' = data
         /\ r'.pc # "panicked"
         /\ IF Len(rlog') = Len(rlog)
              THEN /\ state = DISCONNECTED
                   /\ upgrade' = upgrade
              ELSE LET e == rlog'[Len(rlog')]
                   IN /\ e.op = "can_recv"
                      /\ <<e.res, e.val>> = CanRecvAnswer(state, data, upgrade)
                      /\ upgrade' = IF e.res = "Err" THEN SendUsed
                                    ELSE upgrade]_vars

\* can_recv has returned Err(port) and the upgrade slot is left SendUsed
C21_Witness ==
    /\ flavor = "oneshot"
    /\ r.pc = "idle" /\ r.op = "can_recv"
    /\ rlog[Len(rlog)].res = "Err"
    /\ upgrade = SendUsed

(***************************************************************************)
(* C22.  StreamPacket.do_send, DISCONNECTED arm: once the fetch-add has    *)
(* observed DISCONNECTED the queue holds at most one message, and after    *)
(* the first pop it is empty, so the second pop returns nothing and the    *)
(* assert on it never fails, whatever a concurrent drop_port does.         *)
(***************************************************************************)
C22_SecondPopEmpty ==
    flavor = "stream" =>
      /\ s.pc \in {"store", "pop_first"} => Len(queue) <= 1
      /\ s.pc = "pop_second" => QueuePop(queue) = None
      /\ failure # "do_send: assert!(second.is_none())"

\* the sender's first pop took its own message back while drop_port, running
\* concurrently, had drained an earlier one
C22_Witness ==
    /\ flavor = "stream"
    /\ s.pc = "pop_second" /\ IsSome(s.first)
    /\ r.op = "drop_port" /\ ~s.late
    /\ \E e \in discarded : e.by = "port"

\* do_send executes its fetch_add in this step
SenderFetchAdds == flavor = "stream" /\ s.pc = "fetch_add" /\ s'.pc # "fetch_add"

\* drop_chan executes its swap in this step
DropChanSwaps ==
    /\ flavor = "stream"
    /\ s.pc = "idle" /\ s'.pc # "idle" /\ s'.op = "drop_chan"

(***************************************************************************)
(* C23.  StreamPacket counter range: the value do_send's fetch-add         *)
(* observes is -1, -2, DISCONNECTED or >= 0, and the value drop_chan's     *)
(* swap observes is -1, DISCONNECTED or >= 0, so neither `assert!(n >= 0)` *)
(* fails; whenever the sender observes -1 the to-wake slot holds a handle, *)
(* and it still does when wakeup takes it.                                 *)
(***************************************************************************)
C23_CounterRange ==
    /\ [][SenderFetchAdds =>
            /\ cnt \in {-1, -2, STREAM_DISCONNECTED} \/ cnt >= 0
            /\ cnt = -1 => IsSome(to_wake)
            /\ s'.pc # "panicked"]_vars
    /\ [][DropChanSwaps =>
            /\ cnt \in {-1, STREAM_DISCONNECTED} \/ cnt >= 0
            /\ cnt = -1 => IsSome(to_wake)
            /\ s'.pc # "panicked"]_vars
    /\ [](flavor = "stream" =>
            /\ s.pc = "wakeup" => IsSome(to_wake)
            /\ failure \notin {"do_send: assert!(n >= 0)",
                               "drop_chan: assert!(n >= 0)"})

\* the sender's fetch_add has observed -2: the receiver parked after taking
\* the message this send had pushed
C23_Witness ==
    /\ flavor = "stream"
    /\ s.op \in {"send", "upgrade"} /\ s.pc = "idle" /\ s.n = -2
    /\ cnt = -1 /\ r.pc = "parked"

\* the receiver is not inside recv or try_recv
ROutside == r.pc \in {"idle", "cas", "drain", "done", "destroyed"}

\* the steal count in force: drop_port works on its local copy of self.steals
CurSteals == IF r.op = "drop_port" THEN r.steals ELSE steals

\* messages pushed by a send that has not yet executed its fetch_add
InFlight == IF s.pc = "fetch_add" THEN 1 ELSE 0

\* the original statement: outside recv and try_recv, with no send between
\* its push and its fetch_add, a counter other than DISCONNECTED minus the
\* steals is the length of the queue
C24_Original ==
    (/\ flavor = "stream"
     /\ cnt # STREAM_DISCONNECTED
     /\ s.pc # "fetch_add"
     /\ ROutside)
      => cnt - CurSteals = Len(queue)

(***************************************************************************)
(* C24.  StreamPacket accounting: whenever the counter is not              *)
(* DISCONNECTED, the receiver is not inside recv or try_recv and no send   *)
(* that found DISCONNECTED is still before its store of DISCONNECTED,      *)
(* counter minus steals is the number of messages in the queue, not        *)
(* counting the message of a send between its push and its fetch-add.      *)
(* Hence drop_port's CAS from `steals` to DISCONNECTED succeeds exactly    *)
(* when the queue holds no message but that of such a send.                *)
(***************************************************************************)
C24_Accounting ==
    /\ []((/\ flavor = "stream"
           /\ cnt # STREAM_DISCONNECTED
           /\ s.pc # "store"
           /\ ROutside)
            => cnt - CurSteals = Len(queue) - InFlight)
    /\ [][(/\ flavor = "stream"
           /\ r.pc = "cas" /\ r'.pc # "cas"
           /\ cnt # STREAM_DISCONNECTED
           /\ s.pc # "store")
            => (cnt' = STREAM_DISCONNECTED <=> Len(queue) = InFlight)]_vars

\* both endpoints at rest with a stolen message not yet folded into the
\* counter and another message waiting in the queue
C24_Witness ==
    /\ flavor = "stream"
    /\ s.pc = "idle" /\ r.pc = "idle"
    /\ cnt # STREAM_DISCONNECTED
    /\ steals >= 1 /\ Len(queue) >= 1
====
